---- MODULE Spec2Model ----
(***************************************************************************)
(* Room API of app/model.py: the tables `room` and `room_member`, and the  *)
(* transactions create_room, join_room, leave_room, get_room_info_list,    *)
(* get_room_wait_status, start_room, end_room, get_room_result and         *)
(* leave_expired_member.                                                   *)
(*                                                                         *)
(* Every operation runs inside `with engine.begin() as conn:`, one MySQL   *)
(* (InnoDB) transaction.  The store is modelled with InnoDB's default      *)
(* isolation, REPEATABLE READ:                                             *)
(*   - a plain SELECT reads the snapshot taken by the transaction's first  *)
(*     SELECT, overlaid with the transaction's own writes;                 *)
(*   - SELECT ... FOR UPDATE, UPDATE and DELETE read the latest committed  *)
(*     rows overlaid with the transaction's own writes, and take row locks *)
(*     that are held until commit or rollback;                             *)
(*   - an exception leaving the `with` block rolls the transaction back.   *)
(* A transaction takes one step per statement that may wait for a lock;    *)
(* the plain SELECTs and the Python between two such statements belong to  *)
(* the step of the statement before them.                                  *)
(***************************************************************************)
EXTENDS Integers, FiniteSets, Sequences, TLC

\* ---------------------------------------------------------------- bounds
\* users of the specifications that fill a room (Spec, SerialFull)
NumUsers == 5
\* users of the other specifications (SpecRace, SpecLive, Serial)
NumPlayers == 2
\* rooms created in the serial specifications, and in the concurrent ones
MaxRooms == 2
MaxConcRooms == 1
\* connections open at a time
MaxTxn == 2
\* clock ticks
MaxTime == 2

\* ------------------------------------------------------ program constants
\* class WaitRoomStatus
WATING == 1
LIVE_START == 2
DISSOLUTION == 3
\* create_room: "max_user_count": 4
MAX_USER_COUNT == 4
\* from .config import TTL_LIVE_INTERVAL, TTL_POLLING_INTERVAL (in clock ticks)
TTL_POLLING_INTERVAL == 1
TTL_LIVE_INTERVAL == 2

Users == 1..NumUsers
Players == 1..NumPlayers
RoomIds == 1..MaxRooms
ConcRoomIds == 1..MaxConcRooms
Txns == 1..MaxTxn
\* live_id arguments; 0 is the falsy live_id of get_room_info_list (no filter)
LiveIds == {1001}

VARIABLES
    room,          \* committed table `room`: id -> row
    room_member,   \* committed table `room_member`: set of rows
    next_room_id,  \* AUTO_INCREMENT of `room` (not rolled back)
    now,           \* NOW()
    txn            \* the open transactions (connections)

vars == <<room, room_member, next_room_id, now, txn>>

\* ------------------------------------------------------------ rows, tables
EmptyRooms == [i \in {} |-> 0]

Merge(f, g) ==
    [i \in (DOMAIN f) \cup (DOMAIN g) |-> IF i \in DOMAIN g THEN g[i] ELSE f[i]]

Ids(rows) == {m.id : m \in rows}

NoMember ==
    [id |-> 0, user_id |-> 0, room_id |-> 0, is_host |-> FALSE,
     result |-> "NULL", ttl |-> 0]

Idle ==
    [pc |-> "idle", op |-> "none", user |-> 0, room_id |-> 0, live_id |-> 0,
     snap_room |-> EmptyRooms, snap_member |-> {},
     w_room |-> EmptyRooms, ins |-> {}, del |-> {},
     todo |-> {}, cur |-> NoMember, at |-> 0, ret |-> "none", res |-> {}]

\* rows of a table after the transaction's own writes
Apply(base, rec) ==
    {m \in base : m.id \notin rec.del /\ m.id \notin Ids(rec.ins)} \cup rec.ins

\* what a plain SELECT of the transaction reads
ViewMember(rec) == Apply(rec.snap_member, rec)
ViewRoom(rec) == Merge(rec.snap_room, rec.w_room)

\* what a locking read or a write of the transaction reads
CurMember(rec) == Apply(room_member, rec)
CurRoom(rec) == Merge(room, rec.w_room)

\* room_member.id is AUTO_INCREMENT and the code only ever compares ids for
\* equality (DELETE ... WHERE id=:id): a new row gets an id no row that any
\* transaction can still see carries.
MemberId(u, r, k) == (k * (MaxRooms + MaxConcRooms) + (r - 1)) * (NumUsers + NumPlayers) + u

TxnIds(rec) ==
    Ids(rec.snap_member) \cup Ids(rec.ins) \cup rec.del \cup {rec.cur.id} \cup rec.res

UsedMemberIds == Ids(room_member) \cup UNION {TxnIds(txn[t]) : t \in Txns}

NewMemberId(u, r) ==
    LET free == {k \in 0..(MaxTxn + MAX_USER_COUNT) : MemberId(u, r, k) \notin UsedMemberIds}
    IN MemberId(u, r, CHOOSE k \in free : \A j \in free : k <= j)

\* ------------------------------------------------------------------ locks
LockedRooms(rec) == DOMAIN rec.w_room

LockedRows(rec) == rec.ins \cup {m \in room_member : m.id \in rec.del}

LockedByOthers(t) == UNION {Ids(LockedRows(txn[t2])) : t2 \in Txns \ {t}}

\* rows of room r that a locking scan of transaction t can take at once
FreeRows(t, r) ==
    {m \in CurMember(txn[t]) : m.room_id = r /\ m.id \notin LockedByOthers(t)}

\* the room_member rows the transaction's next statement has to lock
MemberNeeded(t, m) ==
    LET rec == txn[t] IN
    CASE rec.pc = "leave_delete" -> m.id = rec.cur.id
      [] rec.pc \in {"start_ttl", "dissolve_delete"} -> m.room_id = rec.room_id
      [] rec.pc \in {"result_ttl", "wait_ttl"} ->
            m.room_id = rec.room_id /\ m.user_id = rec.user
      [] rec.pc = "leave_host" ->
            m.room_id = rec.cur.room_id /\ FreeRows(t, rec.cur.room_id) = {}
      [] OTHER -> FALSE

\* the room rows the transaction's next statement has to lock
NeedRooms(rec) ==
    CASE rec.pc = "leave_lock" -> {rec.cur.room_id}
      [] rec.pc \in {"join_lock", "start_update", "dissolve_update"} -> {rec.room_id}
      [] OTHER -> {}

WaitsFor(t) ==
    {t2 \in Txns \ {t} :
        \/ NeedRooms(txn[t]) \cap LockedRooms(txn[t2]) # {}
        \/ \E m \in LockedRows(txn[t2]) : MemberNeeded(t, m)}

Blocked(t) == WaitsFor(t) # {}

RECURSIVE Reach(_, _)
Reach(S, n) ==
    IF n = 0 THEN S ELSE Reach(S \cup UNION {WaitsFor(x) : x \in S}, n - 1)

InCycle(t) == t \in Reach(WaitsFor(t), MaxTxn)

NoneDone == \A t \in Txns : txn[t].pc # "done"

\* a new connection takes the first free slot
FreeSlot(t) ==
    /\ NoneDone
    /\ txn[t].pc = "idle"
    /\ \A t2 \in Txns : t2 < t => txn[t2].pc # "idle"

\* The first SELECT of the transaction takes the snapshot.  Of the snapshot a
\* transaction keeps the rows its plain SELECTs can read: those of its user
\* (_valitate_duplicate_member, the "already joined" check, _get_room_member),
\* those of its room (get_room_result, get_room_wait_status), or those of the
\* (user, room) pairs whose lease has run out (_leave_expired_member).
SnapMember(op, u, r) ==
    CASE op \in {"join_room", "create_room", "get_room_info_list"} ->
            {m \in room_member : m.user_id = u}
      [] op \in {"leave_room", "start_room"} ->
            {m \in room_member : m.user_id = u /\ m.room_id = r}
      [] op \in {"get_room_result", "get_room_wait_status"} ->
            {m \in room_member : m.room_id = r}
      [] op = "leave_expired_member" ->
            {m \in room_member : \E x \in room_member :
                x.ttl < now /\ x.user_id = m.user_id /\ x.room_id = m.room_id}
      [] OTHER -> {}

SnapRoom(op, r) ==
    CASE op = "get_room_info_list" -> room
      [] op \in {"get_room_result", "get_room_wait_status"} ->
            [i \in {r} \cap DOMAIN room |-> room[i]]
      [] OTHER -> EmptyRooms

Begin(op, u, r) ==
    [Idle EXCEPT !.pc = "run", !.op = op, !.user = u, !.room_id = r,
                 !.snap_room = SnapRoom(op, r), !.snap_member = SnapMember(op, u, r)]

\* --------------------------------------------- leaving the `with` block
Returned(rec, ret, res) ==
    [Idle EXCEPT !.pc = "done", !.op = rec.op, !.user = rec.user,
                 !.room_id = rec.room_id, !.live_id = rec.live_id,
                 !.ret = ret, !.res = res]

\* normal exit: COMMIT
Commit(t, rec, ret, res) ==
    /\ room' = Merge(room, rec.w_room)
    /\ room_member' = Apply(room_member, rec)
    /\ txn' = [txn EXCEPT ![t] = Returned(rec, ret, res)]

\* exit by exception: ROLLBACK
Rollback(t, rec, err) ==
    /\ UNCHANGED <<room, room_member>>
    /\ txn' = [txn EXCEPT ![t] = Returned(rec, err, {})]

\* the transaction goes on to its next locking statement
Continue(t, rec) ==
    /\ UNCHANGED <<room, room_member>>
    /\ txn' = [txn EXCEPT ![t] = rec]

\* ------------------------------------------------------------ _leave_room
\* SELECT * FROM room_member WHERE room_id=:room_id and user_id=:user_id
SelectMember(rec, u, r) ==
    {m \in ViewMember(rec) : m.user_id = u /\ m.room_id = r}

\* SELECT ... FROM room WHERE joined_user_count<max_user_count and wait_room_status=1
RoomInfoList(rec) ==
    {i \in DOMAIN ViewRoom(rec) :
        /\ ViewRoom(rec)[i].joined_user_count < ViewRoom(rec)[i].max_user_count
        /\ ViewRoom(rec)[i].wait_room_status = WATING
        /\ (rec.live_id # 0 => ViewRoom(rec)[i].live_id = rec.live_id)}

\* create_room returns room_id whatever _join_room returned
JoinReturn(rec, join_result) ==
    IF rec.op = "create_room" THEN "room_id" ELSE join_result

\* _join_room without the "already joined" check
JoinCheckNoRejoin(t, rec) == Continue(t, [rec EXCEPT !.pc = "join_lock"])

\* _join_room after _valitate_duplicate_member: the "already joined" check
JoinCheck(t, rec) ==
    LET rows == SelectMember(rec, rec.user, rec.room_id) IN
    IF Cardinality(rows) > 1 THEN Rollback(t, rec, "MultipleResultsFound")
    ELSE IF Cardinality(rows) = 1 THEN Commit(t, rec, JoinReturn(rec, "OK"), {})
    ELSE Continue(t, [rec EXCEPT !.pc = "join_lock"])

\* what the operation does once its _leave_room calls are over
AfterLeave(t, rec) ==
    CASE rec.op \in {"leave_room", "leave_expired_member"} -> Commit(t, rec, "None", {})
      [] rec.op = "get_room_info_list" -> Commit(t, rec, "list", RoomInfoList(rec))
      [] OTHER -> JoinCheck(t, rec)

\* the next _leave_room(conn, user_id, room_id) of the loop, up to its DELETE:
\* the SELECT ... .one() raises unless exactly one row is found
NextCall(t, rec) ==
    IF rec.todo # {}
    THEN \E p \in rec.todo :
            LET rows == SelectMember(rec, p[1], p[2]) IN
            IF Cardinality(rows) = 1
            THEN Continue(t, [rec EXCEPT !.todo = @ \ {p},
                                         !.cur = CHOOSE m \in rows : TRUE,
                                         !.pc = "leave_delete"])
            ELSE Rollback(t, rec, IF rows = {} THEN "NoResultFound"
                                               ELSE "MultipleResultsFound")
    ELSE AfterLeave(t, rec)

\* DELETE FROM room_member WHERE id=:id
LeaveDelete(t) ==
    LET rec == txn[t] IN
    /\ NoneDone /\ rec.pc = "leave_delete" /\ ~Blocked(t)
    /\ Continue(t, IF rec.cur.id \in Ids(CurMember(rec))
                   THEN [rec EXCEPT !.del = @ \cup {rec.cur.id},
                                    !.ins = {m \in @ : m.id # rec.cur.id},
                                    !.pc = "leave_lock"]
                   ELSE [rec EXCEPT !.pc = "leave_lock"])
    /\ UNCHANGED <<next_room_id, now>>

\* the decrement without the dissolution of the emptied room
LeftRoomNoDissolve(row) == [row EXCEPT !.joined_user_count = @ - 1]

\* the room row after _leave_room's decrement
LeftRoom(row) ==
    [row EXCEPT !.joined_user_count = @ - 1,
                !.wait_room_status = IF row.joined_user_count - 1 < 1
                                     THEN DISSOLUTION ELSE @]

\* SELECT ... FROM room WHERE id=:room_id FOR UPDATE; UPDATE room SET ...
LeaveLock(t) ==
    LET rec == txn[t]
        r == rec.cur.room_id
    IN
    /\ NoneDone /\ rec.pc = "leave_lock" /\ ~Blocked(t)
    /\ IF r \notin DOMAIN CurRoom(rec)
       THEN Rollback(t, rec, "NoResultFound")
       ELSE LET row == LeftRoom(CurRoom(rec)[r])
                rec2 == [rec EXCEPT !.w_room = Merge(@, r :> row)]
            IN IF row.wait_room_status # DISSOLUTION /\ rec.cur.is_host
               THEN Continue(t, [rec2 EXCEPT !.pc = "leave_host"])
               ELSE NextCall(t, [rec2 EXCEPT !.pc = "run"])
    /\ UNCHANGED <<next_room_id, now>>

\* _leave_room without the host promotion
LeaveHostNoPromotion(t) ==
    /\ NoneDone /\ txn[t].pc = "leave_host" /\ ~Blocked(t)
    /\ NextCall(t, [txn[t] EXCEPT !.pc = "run"])
    /\ UNCHANGED <<next_room_id, now>>

\* UPDATE room_member SET is_host=true WHERE room_id=:room_id LIMIT 1
\* (no ORDER BY: whichever row the scan meets first)
LeaveHost(t) ==
    LET rec == txn[t]
        r == rec.cur.room_id
    IN
    /\ NoneDone /\ rec.pc = "leave_host" /\ ~Blocked(t)
    /\ IF FreeRows(t, r) = {}
       THEN NextCall(t, [rec EXCEPT !.pc = "run"])
       ELSE \E m \in FreeRows(t, r) :
               NextCall(t, [rec EXCEPT !.pc = "run",
                                       !.ins = {x \in @ : x.id # m.id}
                                               \cup {[m EXCEPT !.is_host = TRUE]}])
    /\ UNCHANGED <<next_room_id, now>>

\* ------------------------------------- callers of _leave_room, _join_room
\* _valitate_duplicate_member finding no other room
DuplicateMemberNone(rec, u, r) == {}

\* SELECT room_id FROM room_member WHERE user_id=:user_id and room_id!=:room_id
DuplicateMember(rec, u, r) ==
    {<<u, m.room_id>> : m \in {x \in ViewMember(rec) : x.user_id = u /\ x.room_id # r}}

\* SELECT user_id, room_id FROM room_member WHERE ttl < NOW()
ExpiredMember(rec) ==
    {<<m.user_id, m.room_id>> : m \in {x \in ViewMember(rec) : x.ttl < now}}

leave_room(t, u, r) ==
    /\ FreeSlot(t)
    /\ NextCall(t, [Begin("leave_room", u, r) EXCEPT !.todo = {<<u, r>>}])
    /\ UNCHANGED <<next_room_id, now>>

\* _leave_expired_member: the SELECT and the loop over its rows; at is the
\* NOW() of the SELECT
leave_expired_member(t) ==
    /\ FreeSlot(t)
    /\ LET rec == [Begin("leave_expired_member", 0, 0) EXCEPT !.at = now] IN
       NextCall(t, [rec EXCEPT !.todo = ExpiredMember(rec)])
    /\ UNCHANGED <<next_room_id, now>>

get_room_info_list(t, u, live_id) ==
    /\ FreeSlot(t)
    /\ LET rec == [Begin("get_room_info_list", u, 0) EXCEPT !.live_id = live_id] IN
       NextCall(t, [rec EXCEPT !.todo = DuplicateMember(rec, u, 0)])
    /\ UNCHANGED <<next_room_id, now>>

join_room(t, u, r) ==
    /\ FreeSlot(t)
    /\ LET rec == Begin("join_room", u, r) IN
       NextCall(t, [rec EXCEPT !.todo = DuplicateMember(rec, u, r)])
    /\ UNCHANGED <<next_room_id, now>>

\* INSERT INTO room ...; room_id = result.lastrowid; _join_room(..., True)
create_room(t, u, live_id) ==
    /\ FreeSlot(t)
    /\ next_room_id <= MaxRooms
    /\ LET r == next_room_id
           rec == [Begin("create_room", u, r) EXCEPT
                     !.live_id = live_id,
                     !.w_room = r :> [live_id |-> live_id,
                                      joined_user_count |-> 0,
                                      max_user_count |-> MAX_USER_COUNT,
                                      wait_room_status |-> WATING]]
       IN NextCall(t, [rec EXCEPT !.todo = DuplicateMember(rec, u, r)])
    /\ next_room_id' = next_room_id + 1
    /\ UNCHANGED now

\* a capacity test that turns every joiner away, the creator included
RoomFullAlways(row) == TRUE

\* the capacity test with > for >=
RoomFullOffByOne(row) == row.joined_user_count > row.max_user_count

\* if room_row["joined_user_count"] >= room_row["max_user_count"]
RoomFull(row) == row.joined_user_count >= row.max_user_count

\* _join_room from "SELECT ... FROM room WHERE id=:room_id FOR UPDATE" on
JoinLock(t) ==
    LET rec == txn[t]
        r == rec.room_id
    IN
    /\ NoneDone /\ rec.pc = "join_lock" /\ ~Blocked(t)
    /\ IF r \notin DOMAIN CurRoom(rec)
       THEN Rollback(t, rec, "NoResultFound")
       ELSE LET row == CurRoom(rec)[r] IN
            IF row.wait_room_status # WATING
            THEN Commit(t, rec, JoinReturn(rec, "DISBANDED"), {})
            ELSE IF RoomFull(row)
            THEN Commit(t, rec, JoinReturn(rec, "ROOM_FULL"), {})
            ELSE Commit(t,
                   [rec EXCEPT
                      !.w_room = Merge(@, r :> [row EXCEPT !.joined_user_count = @ + 1]),
                      !.ins = @ \cup {[id |-> NewMemberId(rec.user, r),
                                       user_id |-> rec.user,
                                       room_id |-> r,
                                       is_host |-> (rec.op = "create_room"),
                                       result |-> "NULL",
                                       ttl |-> now + TTL_POLLING_INTERVAL]}],
                   JoinReturn(rec, "OK"), {})
    /\ UNCHANGED <<next_room_id, now>>

\* ------------------------------------------------------ session lifecycle
\* UPDATE room_member SET ttl=ADDTIME(NOW(), :time) WHERE [user_id=:user_id and] room_id=:room_id
\* (u = 0: the call passes no user_id)
_update_member_ttl(rec, r, u, time) ==
    LET hit == {m \in CurMember(rec) : m.room_id = r /\ (u # 0 => m.user_id = u)} IN
    [rec EXCEPT !.ins = {x \in @ : x.id \notin Ids(hit)}
                        \cup {[m EXCEPT !.ttl = now + time] : m \in hit}]

\* start_room: member = _get_room_member(conn, user.id, room_id)
start_room(t, u, r) ==
    /\ FreeSlot(t)
    /\ LET rec == Begin("start_room", u, r)
           rows == SelectMember(rec, u, r)
       IN IF Cardinality(rows) = 1
          THEN Continue(t, [rec EXCEPT !.pc = "start_ttl"])
          ELSE Rollback(t, rec, IF rows = {} THEN "NoResultFound"
                                             ELSE "MultipleResultsFound")
    /\ UNCHANGED <<next_room_id, now>>

\* start_room: _update_member_ttl(conn, room_id, time=timedelta(seconds=TTL_LIVE_INTERVAL))
StartTtl(t) ==
    LET rec == txn[t] IN
    /\ NoneDone /\ rec.pc = "start_ttl" /\ ~Blocked(t)
    /\ Continue(t, [_update_member_ttl(rec, rec.room_id, 0, TTL_LIVE_INTERVAL)
                        EXCEPT !.pc = "start_update"])
    /\ UNCHANGED <<next_room_id, now>>

\* the UPDATE of start_room without its wait_room_status condition
StartMatchesAny(row) == TRUE

\* ... WHERE `id`=:room_id and `wait_room_status`=:wait
StartMatches(row) == row.wait_room_status = WATING

\* start_room: UPDATE room SET wait_room_status=:start WHERE id=:room_id and
\* wait_room_status=:wait; if result.rowcount != 1: raise Exception
StartUpdate(t) ==
    LET rec == txn[t]
        r == rec.room_id
    IN
    /\ NoneDone /\ rec.pc = "start_update" /\ ~Blocked(t)
    /\ IF r \in DOMAIN CurRoom(rec) /\ StartMatches(CurRoom(rec)[r])
       THEN Commit(t, [rec EXCEPT !.w_room =
                          Merge(@, r :> [CurRoom(rec)[r] EXCEPT
                                            !.wait_room_status = LIVE_START])],
                   "None", {})
       ELSE Rollback(t, rec, "Exception")
    /\ UNCHANGED <<next_room_id, now>>

\* end_room: no plain SELECT of the room tables; both UPDATEs lock rows of the room
end_room(t, u, r) ==
    /\ FreeSlot(t)
    /\ \A t2 \in Txns : \A m \in LockedRows(txn[t2]) : m.room_id # r
    /\ LET rec == _update_member_ttl(Begin("end_room", u, r), r, 0, TTL_POLLING_INTERVAL)
           hit == {m \in CurMember(rec) : m.user_id = u /\ m.room_id = r}
       IN IF Cardinality(hit) = 1
          THEN Commit(t, [rec EXCEPT !.ins = {x \in @ : x.id \notin Ids(hit)}
                                            \cup {[m EXCEPT !.result = "SET"] : m \in hit}],
                      "None", {})
          ELSE Rollback(t, rec, "Exception")
    /\ UNCHANGED <<next_room_id, now>>

\* get_room_result without the test that the caller has submitted
CallerSubmittedAlways(result_user_list, u) == TRUE

\* any(ru.user_id == user.id for ru in result_user_list)
CallerSubmitted(result_user_list, u) == \E ru \in result_user_list : ru.user_id = u

get_room_result(t, u, r) ==
    /\ FreeSlot(t)
    /\ Continue(t, [Begin("get_room_result", u, r) EXCEPT !.pc = "result_ttl"])
    /\ UNCHANGED <<next_room_id, now>>

\* get_room_result from _update_member_ttl(conn, room_id, user_id=user.id) to
\* the call of _dissolution_room
ResultTtl(t) ==
    LET rec == _update_member_ttl(txn[t], txn[t].room_id, txn[t].user, TTL_POLLING_INTERVAL)
        r == rec.room_id
        result_user_list == {m \in ViewMember(rec) : m.room_id = r /\ m.result # "NULL"}
    IN
    /\ NoneDone /\ txn[t].pc = "result_ttl" /\ ~Blocked(t)
    /\ IF r \notin DOMAIN ViewRoom(rec) \/ ViewRoom(rec)[r].wait_room_status # LIVE_START
       THEN Rollback(t, rec, "NoResultFound")
       ELSE IF Cardinality(result_user_list) < ViewRoom(rec)[r].joined_user_count
       THEN Commit(t, rec, "list", {})
       ELSE IF ~CallerSubmitted(result_user_list, rec.user)
       THEN Commit(t, rec, "list", {})
       ELSE Continue(t, [rec EXCEPT !.pc = "dissolve_delete",
                                    !.res = Ids(result_user_list)])
    /\ UNCHANGED <<next_room_id, now>>

\* _dissolution_room: DELETE FROM room_member WHERE room_id=:room_id
DissolveDelete(t) ==
    LET rec == txn[t]
        hit == {m \in CurMember(rec) : m.room_id = rec.room_id}
    IN
    /\ NoneDone /\ rec.pc = "dissolve_delete" /\ ~Blocked(t)
    /\ Continue(t, [rec EXCEPT !.del = @ \cup Ids(hit),
                               !.ins = {x \in @ : x.id \notin Ids(hit)},
                               !.pc = "dissolve_update"])
    /\ UNCHANGED <<next_room_id, now>>

\* _dissolution_room: UPDATE room SET joined_user_count=0, wait_room_status=DISSOLUTION
DissolveUpdate(t) ==
    LET rec == txn[t]
        r == rec.room_id
    IN
    /\ NoneDone /\ rec.pc = "dissolve_update" /\ ~Blocked(t)
    /\ Commit(t, IF r \in DOMAIN CurRoom(rec)
                 THEN [rec EXCEPT !.w_room =
                          Merge(@, r :> [CurRoom(rec)[r] EXCEPT
                                            !.joined_user_count = 0,
                                            !.wait_room_status = DISSOLUTION])]
                 ELSE rec,
              "list", rec.res)
    /\ UNCHANGED <<next_room_id, now>>

\* get_room_wait_status up to _update_member_ttl
get_room_wait_status(t, u, r) ==
    /\ FreeSlot(t)
    /\ LET rec == Begin("get_room_wait_status", u, r) IN
       IF SelectMember(rec, u, r) = {} \/ r \notin DOMAIN ViewRoom(rec)
       THEN Rollback(t, rec, "NoResultFound")
       ELSE IF ViewRoom(rec)[r].wait_room_status = WATING
       THEN Continue(t, [rec EXCEPT !.pc = "wait_ttl"])
       ELSE Commit(t, rec, "status", Ids({m \in ViewMember(rec) : m.room_id = r}))
    /\ UNCHANGED <<next_room_id, now>>

\* get_room_wait_status: _update_member_ttl(conn, room_id, user.id, ...) and the member list
WaitTtl(t) ==
    LET rec == _update_member_ttl(txn[t], txn[t].room_id, txn[t].user, TTL_POLLING_INTERVAL) IN
    /\ NoneDone /\ txn[t].pc = "wait_ttl" /\ ~Blocked(t)
    /\ Commit(t, rec, "status", Ids({m \in ViewMember(rec) : m.room_id = rec.room_id}))
    /\ UNCHANGED <<next_room_id, now>>

\* ------------------------------------------------------------ environment
\* InnoDB rolls back one transaction of a lock-wait cycle; the statement raises
DeadlockVictim(t) ==
    /\ NoneDone /\ InCycle(t)
    /\ Rollback(t, txn[t], "Deadlock")
    /\ UNCHANGED <<next_room_id, now>>

\* the caller has its answer; the connection is returned to the pool
Retire(t) ==
    /\ txn[t].pc = "done"
    /\ txn' = [txn EXCEPT ![t] = Idle]
    /\ UNCHANGED <<room, room_member, next_room_id, now>>

Tick ==
    /\ NoneDone /\ now < MaxTime
    /\ now' = now + 1
    /\ UNCHANGED <<room, room_member, next_room_id, txn>>

Init ==
    /\ room = EmptyRooms
    /\ room_member = {}
    /\ next_room_id = 1
    /\ now = 0
    /\ txn = [t \in Txns |-> Idle]

\* the statements of an open transaction that may wait for a lock
LeaveSteps ==
    \/ \E t \in Txns : LeaveDelete(t)
    \/ \E t \in Txns : LeaveLock(t)
    \/ \E t \in Txns : LeaveHost(t)

StartSteps ==
    \/ \E t \in Txns : StartTtl(t)
    \/ \E t \in Txns : StartUpdate(t)

ResultSteps ==
    \/ \E t \in Txns : ResultTtl(t)
    \/ \E t \in Txns : DissolveDelete(t)
    \/ \E t \in Txns : DissolveUpdate(t)

\* user u has no request in flight
OneRequest(u) ==
    \A t \in Txns : txn[t].pc \in {"idle", "done"} \/ txn[t].user # u

\* Concurrent requests of distinct users (every client has at most one request
\* in flight) against one room: create_room, join_room, leave_room.
Next ==
    \/ \E t \in Txns, u \in Users, live_id \in LiveIds :
          OneRequest(u) /\ next_room_id <= MaxConcRooms /\ create_room(t, u, live_id)
    \/ \E t \in Txns, u \in Users, r \in ConcRoomIds : OneRequest(u) /\ join_room(t, u, r)
    \/ \E t \in Txns, u \in Users, r \in ConcRoomIds : OneRequest(u) /\ leave_room(t, u, r)
    \/ LeaveSteps
    \/ \E t \in Txns : JoinLock(t)
    \/ \E t \in Txns : DeadlockVictim(t)
    \/ \E t \in Txns : Retire(t)

Spec == Init /\ [][Next]_vars

\* Any concurrent requests, also of one user, and the expiry sweep as time passes.
NextRace ==
    \/ \E t \in Txns, u \in Players, live_id \in LiveIds :
          next_room_id <= MaxConcRooms /\ create_room(t, u, live_id)
    \/ \E t \in Txns, u \in Players, r \in ConcRoomIds : join_room(t, u, r)
    \/ \E t \in Txns, u \in Players, r \in ConcRoomIds : leave_room(t, u, r)
    \/ \E t \in Txns : leave_expired_member(t)
    \/ LeaveSteps
    \/ \E t \in Txns : JoinLock(t)
    \/ \E t \in Txns : DeadlockVictim(t)
    \/ \E t \in Txns : Retire(t)
    \/ Tick

SpecRace == Init /\ [][NextRace]_vars

\* Any concurrent create_room and join_room requests, also of one user, against
\* two rooms.
NextTwoRooms ==
    \/ \E t \in Txns, u \in Players, live_id \in LiveIds : create_room(t, u, live_id)
    \/ \E t \in Txns, u \in Players, r \in RoomIds : join_room(t, u, r)
    \/ LeaveSteps
    \/ \E t \in Txns : JoinLock(t)
    \/ \E t \in Txns : DeadlockVictim(t)
    \/ \E t \in Txns : Retire(t)

SpecTwoRooms == Init /\ [][NextTwoRooms]_vars

\* Leases running out: create_room and join_room requests, also of one user,
\* arrive at time 0 only, so that no lease is granted or refreshed later; the
\* clock advances once they have ended, and the expiry sweep is invoked again
\* and again, one sweep at a time (no two of these transactions ever wait for
\* each other).  Every open transaction eventually takes its next step, and the
\* clock, which no request can hold up, advances whenever it can again and again.
LeaseTick ==
    /\ \A t \in Txns : txn[t].op \notin {"create_room", "join_room"}
    /\ Tick

LeaseSweep ==
    \E t \in Txns :
       /\ \A t2 \in Txns : txn[t2].op # "leave_expired_member"
       /\ leave_expired_member(t)

NextLease ==
    \/ \E t \in Txns, u \in Players, live_id \in LiveIds :
          now = 0 /\ next_room_id <= MaxConcRooms /\ create_room(t, u, live_id)
    \/ \E t \in Txns, u \in Players, r \in ConcRoomIds : now = 0 /\ join_room(t, u, r)
    \/ LeaseSweep
    \/ LeaveSteps
    \/ \E t \in Txns : JoinLock(t)
    \/ \E t \in Txns : Retire(t)
    \/ LeaseTick

SpecLease ==
    /\ Init
    /\ [][NextLease]_vars
    /\ SF_vars(LeaseTick)
    /\ WF_vars(LeaseSweep)
    /\ WF_vars(LeaveSteps)
    /\ WF_vars(\E t \in Txns : JoinLock(t))
    /\ WF_vars(\E t \in Txns : Retire(t))

\* Concurrent requests of the session lifecycle of one room: any start_room,
\* end_room and get_room_result requests, also of one user, after the members
\* have joined (a user's create_room or join_room is its only request in flight).
NextLive ==
    \/ \E t \in Txns, u \in Players, live_id \in LiveIds :
          OneRequest(u) /\ next_room_id <= MaxConcRooms /\ create_room(t, u, live_id)
    \/ \E t \in Txns, u \in Players, r \in ConcRoomIds : OneRequest(u) /\ join_room(t, u, r)
    \/ \E t \in Txns, u \in Players, r \in ConcRoomIds : start_room(t, u, r)
    \/ \E t \in Txns, u \in Players, r \in ConcRoomIds : end_room(t, u, r)
    \/ \E t \in Txns, u \in Players, r \in ConcRoomIds : get_room_result(t, u, r)
    \/ \E t \in Txns : JoinLock(t)
    \/ StartSteps
    \/ ResultSteps
    \/ \E t \in Txns : DeadlockVictim(t)
    \/ \E t \in Txns : Retire(t)

SpecLive == Init /\ [][NextLive]_vars

\* One request at a time (connection 1), every operation.
NextSerial ==
    \/ \E u \in Players, live_id \in LiveIds : create_room(1, u, live_id)
    \/ \E u \in Players, r \in RoomIds : join_room(1, u, r)
    \/ \E u \in Players, r \in RoomIds : leave_room(1, u, r)
    \/ \E u \in Players, live_id \in LiveIds \cup {0} : get_room_info_list(1, u, live_id)
    \/ \E u \in Players, r \in RoomIds : get_room_wait_status(1, u, r)
    \/ \E u \in Players, r \in RoomIds : start_room(1, u, r)
    \/ \E u \in Players, r \in RoomIds : end_room(1, u, r)
    \/ \E u \in Players, r \in RoomIds : get_room_result(1, u, r)
    \/ leave_expired_member(1)
    \/ LeaveSteps
    \/ \E t \in Txns : JoinLock(t)
    \/ StartSteps
    \/ ResultSteps
    \/ \E t \in Txns : WaitTtl(t)
    \/ \E t \in Txns : Retire(t)
    \/ Tick

Serial == Init /\ [][NextSerial]_vars

\* One request at a time, enough users to fill a room: membership and start_room.
NextSerialFull ==
    \/ \E u \in Users, live_id \in LiveIds : create_room(1, u, live_id)
    \/ \E u \in Users, r \in RoomIds : join_room(1, u, r)
    \/ \E u \in Users, r \in RoomIds : leave_room(1, u, r)
    \/ \E u \in Users, r \in RoomIds : start_room(1, u, r)
    \/ LeaveSteps
    \/ \E t \in Txns : JoinLock(t)
    \/ StartSteps
    \/ \E t \in Txns : Retire(t)

SerialFull == Init /\ [][NextSerialFull]_vars

\* ------------------------------------------------------------- properties
\* committed room_member rows of room r
Members(r) == {m \in room_member : m.room_id = r}

\* the transaction of slot t has just returned from operation op
Done(t, op) == txn[t].pc = "done" /\ txn[t].op = op

\* C1: with concurrent joins of distinct users a room never holds more
\* memberships than max_user_count (4); a join is answered ROOM_FULL only when
\* the room is WAITING and holds max_user_count members, DISBANDED only when
\* the room is not WAITING, and OK only when the caller holds its one
\* membership of the room: of two joiners racing for the last slot one gets OK
\* and the other ROOM_FULL.
C1_Capacity ==
    /\ \A r \in DOMAIN room : Cardinality(Members(r)) <= room[r].max_user_count
    /\ \A t \in Txns :
          Done(t, "join_room") =>
             LET r == txn[t].room_id
                 mine == {m \in Members(r) : m.user_id = txn[t].user}
             IN /\ txn[t].ret = "ROOM_FULL" =>
                      /\ room[r].wait_room_status = WATING
                      /\ room[r].joined_user_count = room[r].max_user_count
                      /\ Cardinality(Members(r)) = room[r].max_user_count
                      /\ mine = {}
                /\ txn[t].ret = "DISBANDED" =>
                      room[r].wait_room_status # WATING /\ mine = {}
                /\ txn[t].ret = "OK" => Cardinality(mine) = 1

\* a join has just been refused on the full room
C1_Witness ==
    \E t \in Txns :
       /\ Done(t, "join_room") /\ txn[t].ret = "ROOM_FULL"
       /\ Cardinality(Members(txn[t].room_id)) = MAX_USER_COUNT

\* C2: in every committed state, whatever the interleaving of joins, leaves,
\* evictions and sweeps, 0 <= joined_user_count <= max_user_count.
C2_CountInRange ==
    \A r \in DOMAIN room :
       /\ 0 <= room[r].joined_user_count
       /\ room[r].joined_user_count <= room[r].max_user_count

\* C3: in every committed state joined_user_count equals the number of
\* room_member rows of the room.
C3_CountIsRows ==
    \A r \in DOMAIN room : room[r].joined_user_count = Cardinality(Members(r))

\* the step ends the transaction of slot t, which ran operation op
Finishes(t, op) == txn[t].pc # "done" /\ txn'[t].pc = "done" /\ txn'[t].op = op

\* C4: a join_room by a user who already is a member of the room returns OK,
\* inserts no row and leaves the room's count, status and member rows (host
\* flags included) as they were, whether the room is WAITING or LIVE, full or not.
C4_Rejoin ==
    [][\A t \in Txns :
          LET u == txn'[t].user
              r == txn'[t].room_id
          IN (Finishes(t, "join_room") /\ \E m \in Members(r) : m.user_id = u) =>
                /\ txn'[t].ret = "OK"
                /\ room'[r] = room[r]
                /\ {m \in room_member' : m.room_id = r} = Members(r)]_vars

\* a member's join of its own full, LIVE room has returned OK
C4_Witness ==
    \E t \in Txns :
       /\ Done(t, "join_room") /\ txn[t].ret = "OK"
       /\ room[txn[t].room_id].wait_room_status = LIVE_START
       /\ room[txn[t].room_id].joined_user_count = MAX_USER_COUNT
       /\ \E m \in Members(txn[t].room_id) : m.user_id = txn[t].user

\* C5: a join_room or create_room for a room B by a user who is a member of
\* another room A removes the user's membership of A, lowers A's count by one,
\* makes A DISSOLVED if the count reached 0 and gives A exactly one host if the
\* user was A's host and members remain, whether the join is answered OK,
\* ROOM_FULL or DISBANDED.
C5_Eviction ==
    [][\A t \in Txns : \A a \in DOMAIN room :
          LET u == txn'[t].user
              mine == {m \in Members(a) : m.user_id = u}
              after == {m \in room_member' : m.room_id = a}
          IN (/\ Finishes(t, "join_room") \/ Finishes(t, "create_room")
              /\ txn'[t].ret \in {"OK", "ROOM_FULL", "DISBANDED", "room_id"}
              /\ a # txn'[t].room_id
              /\ mine # {}) =>
                /\ \A m \in after : m.user_id # u
                /\ room'[a].joined_user_count = room[a].joined_user_count - 1
                /\ room'[a].joined_user_count = 0 =>
                      room'[a].wait_room_status = DISSOLUTION
                /\ ((\E m \in mine : m.is_host) /\ room'[a].joined_user_count > 0) =>
                      Cardinality({m \in after : m.is_host}) = 1]_vars

\* a join that has evicted its user from another room is about to be refused
\* on a full room
C5_Witness ==
    \E t \in Txns :
       /\ txn[t].op = "join_room" /\ txn[t].pc = "join_lock"
       /\ DOMAIN txn[t].w_room # {}
       /\ txn[t].room_id \in DOMAIN room
       /\ room[txn[t].room_id].wait_room_status = WATING
       /\ RoomFull(room[txn[t].room_id])

\* the operations that call _leave_room
LeaveOps ==
    {"leave_room", "leave_expired_member", "join_room", "create_room",
     "get_room_info_list"}

\* C6: when a leave (voluntary, by eviction or by the sweep) removes the last
\* member of a room, the room ends with joined_user_count = 0 and status
\* DISSOLVED and without member rows, whether it was WAITING or LIVE; a leave
\* that leaves at least one member behind does not change the room's status.
C6_LastLeave ==
    [][\A t \in Txns : \A a \in DOMAIN room :
          LET after == {m \in room_member' : m.room_id = a} IN
          (/\ \E op \in LeaveOps : Finishes(t, op)
           /\ \E m \in Members(a) : m.id \notin Ids(after)) =>
              IF after = {}
              THEN /\ room'[a].joined_user_count = 0
                   /\ room'[a].wait_room_status = DISSOLUTION
              ELSE room'[a].wait_room_status = room[a].wait_room_status]_vars

\* the sweep is about to take the last member out of a LIVE room
C6_Witness ==
    \E t \in Txns :
       /\ txn[t].op = "leave_expired_member" /\ txn[t].pc = "leave_lock"
       /\ txn[t].cur.room_id \in DOMAIN room
       /\ room[txn[t].cur.room_id].wait_room_status = LIVE_START
       /\ Cardinality(Members(txn[t].cur.room_id)) = 1

\* C7: a room with joined_user_count > 0 has exactly one member row with
\* is_host set, and a room without members has none.
C7_OneHost ==
    \A r \in DOMAIN room :
       LET hosts == {m \in Members(r) : m.is_host} IN
       /\ room[r].joined_user_count > 0 => Cardinality(hosts) = 1
       /\ Members(r) = {} => hosts = {}

\* member rows without their lease
NoTtl(rows) == {[m EXCEPT !.ttl = 0] : m \in rows}

\* C8: get_room_result on a LIVE room returns the empty list and leaves the
\* room's status, count and memberships as they were, unless every member has
\* submitted a result and the caller is one of the submitters; then it returns
\* one result per member and the room ends with no member rows,
\* joined_user_count = 0 and status DISSOLVED.
C8_Result ==
    [][\A t \in Txns :
          LET u == txn'[t].user
              r == txn'[t].room_id
              after == {m \in room_member' : m.room_id = r}
              ready == /\ \A m \in Members(r) : m.result # "NULL"
                       /\ \E m \in Members(r) : m.user_id = u /\ m.result # "NULL"
          IN (/\ Finishes(t, "get_room_result")
              /\ r \in DOMAIN room
              /\ room[r].wait_room_status = LIVE_START) =>
                 /\ txn'[t].ret = "list"
                 /\ IF ready
                    THEN /\ txn'[t].res = Ids(Members(r))
                         /\ after = {}
                         /\ room'[r].joined_user_count = 0
                         /\ room'[r].wait_room_status = DISSOLUTION
                    ELSE /\ txn'[t].res = {}
                         /\ room'[r] = room[r]
                         /\ NoTtl(after) = NoTtl(Members(r))]_vars

\* the results of both members of a room have been returned and the room is dissolved
C8_Witness ==
    \E t \in Txns :
       /\ Done(t, "get_room_result") /\ Cardinality(txn[t].res) = 2
       /\ room[txn[t].room_id].wait_room_status = DISSOLUTION
       /\ Members(txn[t].room_id) = {}

\* C9: the full (non-empty) result list of a room is returned by exactly one
\* get_room_result call: a call returns it only while the room is still LIVE,
\* that is before any other call has returned it and dissolved the room.
C9_ReturnedOnce ==
    [][\A t \in Txns :
          (Finishes(t, "get_room_result") /\ txn'[t].res # {}) =>
             room[txn'[t].room_id].wait_room_status = LIVE_START]_vars

\* C10: a start_room that reaches its conditional UPDATE (the caller is a
\* member) on a WAITING room succeeds and makes the room LIVE, nothing else of
\* the room changing; on a room that is not WAITING it fails with the
\* exception of the rowcount test; a start_room succeeds only on a WAITING room
\* (so of any number of calls one succeeds), and a start_room that ends on a
\* room that is not WAITING fails and leaves every room and every member row,
\* leases included, as they were.
C10_Start ==
    [][\A t \in Txns :
          LET r == txn'[t].room_id
              waiting == r \in DOMAIN room /\ room[r].wait_room_status = WATING
          IN /\ (txn[t].pc = "start_update" /\ Finishes(t, "start_room")) =>
                   IF waiting
                   THEN /\ txn'[t].ret = "None"
                        /\ room' = [room EXCEPT ![r].wait_room_status = LIVE_START]
                   ELSE txn'[t].ret = "Exception"
             /\ (Finishes(t, "start_room") /\ ~waiting) =>
                   /\ txn'[t].ret \in {"Exception", "NoResultFound"}
                   /\ room' = room
                   /\ room_member' = room_member]_vars

\* a member's start_room has failed on the room that is already LIVE
C10_Witness ==
    \E t \in Txns :
       /\ Done(t, "start_room") /\ txn[t].ret = "Exception"
       /\ room[txn[t].room_id].wait_room_status = LIVE_START
       /\ \E m \in Members(txn[t].room_id) : m.user_id = txn[t].user

\* C11: leave_expired_member removes exactly the member rows whose ttl is
\* earlier than the current time (the NOW() of its SELECT) and leaves every room as leave_room for each
\* of those memberships does: the count lowered by the number of rows removed,
\* DISSOLVED when the count falls below 1 and the status unchanged otherwise,
\* one host while members remain, rooms without an expired member untouched;
\* no expired row is left, so a second run at the same time changes nothing.
C11_Sweep ==
    [][\A t \in Txns :
          Finishes(t, "leave_expired_member") =>
             LET time == IF txn[t].op = "leave_expired_member" THEN txn[t].at
                                                                  ELSE now
                 expired == {m \in room_member : m.ttl < time}
             IN
             /\ txn'[t].ret = "None"
             /\ Ids(room_member') = Ids(room_member) \ Ids(expired)
             /\ \A x \in room_member' : \E m \in room_member :
                   m.id = x.id /\ x = [m EXCEPT !.is_host = x.is_host]
             /\ \A x \in room_member' : ~(x.ttl < time)
             /\ \A r \in DOMAIN room :
                   LET n == Cardinality({m \in expired : m.room_id = r})
                       left == room[r].joined_user_count - n
                   IN IF n = 0
                      THEN /\ room'[r] = room[r]
                           /\ {x \in room_member' : x.room_id = r} = Members(r)
                      ELSE /\ room'[r].joined_user_count = left
                           /\ room'[r].wait_room_status =
                                 IF left < 1 THEN DISSOLUTION
                                 ELSE room[r].wait_room_status
                           /\ left > 0 =>
                                 Cardinality({x \in room_member' :
                                                x.room_id = r /\ x.is_host}) = 1]_vars

\* the sweep is taking the expired host out of a room in which another
\* member's lease has not run out
C11_Witness ==
    \E t \in Txns :
       /\ txn[t].op = "leave_expired_member" /\ txn[t].pc = "leave_lock"
       /\ txn[t].cur.is_host /\ txn[t].cur.ttl < now
       /\ \E m \in Members(txn[t].cur.room_id) : m.ttl >= now

\* C12: a room's status changes only from WAITING to LIVE, from WAITING to
\* DISSOLVED and from LIVE to DISSOLVED; a DISSOLVED room keeps its status,
\* gains no member row and has joined_user_count = 0 from then on.
C12_StatusOrder ==
    [][\A r \in DOMAIN room :
          /\ room'[r].wait_room_status # room[r].wait_room_status =>
                <<room[r].wait_room_status, room'[r].wait_room_status>> \in
                   {<<WATING, LIVE_START>>, <<WATING, DISSOLUTION>>,
                    <<LIVE_START, DISSOLUTION>>}
          /\ room[r].wait_room_status = DISSOLUTION =>
                /\ room'[r].wait_room_status = DISSOLUTION
                /\ Ids({m \in room_member' : m.room_id = r}) \subseteq Ids(Members(r))
                /\ room'[r].joined_user_count = 0]_vars

\* the rooms a listing for live_id returns from the table rooms
OpenRooms(rooms, live_id) ==
    {r \in DOMAIN rooms :
        /\ rooms[r].joined_user_count < rooms[r].max_user_count
        /\ rooms[r].wait_room_status = WATING
        /\ (live_id # 0 => rooms[r].live_id = live_id)}

\* C13: get_room_info_list changes no member row and no room, also
\* for a caller who is member or host of a room, and returns the rooms that are
\* WAITING with joined_user_count < max_user_count (of the given live_id).
C13_NoSideEffects ==
    [][\A t \in Txns :
          Finishes(t, "get_room_info_list") =>
             /\ room' = room
             /\ room_member' = room_member
             /\ txn'[t].ret = "list"
             /\ txn'[t].res = OpenRooms(room, txn'[t].live_id)]_vars

\* C14: get_room_result for a room that is not LIVE (WAITING or DISSOLVED)
\* returns the empty list as a normal value and changes no room and no member
\* row.
C14_NotLiveEmpty ==
    [][\A t \in Txns :
          LET r == txn'[t].room_id
          IN (/\ Finishes(t, "get_room_result")
              /\ r \in DOMAIN room
              /\ room[r].wait_room_status # LIVE_START) =>
                /\ txn'[t].ret = "list"
                /\ txn'[t].res = {}
                /\ room' = room
                /\ room_member' = room_member]_vars

\* C15: when create_room has returned, the new room is WAITING with
\* max_user_count 4 and joined_user_count 1 and has exactly one member row, the
\* creator's, with is_host true; a create_room that fails leaves no room row;
\* and no committed state holds a WAITING or LIVE room with
\* joined_user_count = 0.
C15_Create ==
    /\ \A t \in Txns :
          Done(t, "create_room") =>
             IF txn[t].ret = "room_id"
             THEN LET r == txn[t].room_id
                  IN /\ r \in DOMAIN room
                     /\ room[r].wait_room_status = WATING
                     /\ room[r].max_user_count = MAX_USER_COUNT
                     /\ room[r].joined_user_count = 1
                     /\ Cardinality(Members(r)) = 1
                     /\ \A m \in Members(r) : m.user_id = txn[t].user /\ m.is_host
             ELSE txn[t].room_id \notin DOMAIN room
    /\ \A r \in DOMAIN room :
          room[r].joined_user_count = 0 => room[r].wait_room_status = DISSOLUTION

\* a create_room has returned while another room stands dissolved, its last
\* member evicted
C15_Witness ==
    \E t \in Txns :
       /\ Done(t, "create_room")
       /\ txn[t].ret = "room_id"
       /\ \E r \in DOMAIN room :
             r # txn[t].room_id /\ room[r].wait_room_status = DISSOLUTION

\* C16: in every committed state, whatever the interleaving of create_room and
\* join_room requests (also two requests of one user for two different rooms),
\* each user has member rows in at most one room that is not DISSOLVED.
C16_OneRoomPerUser ==
    \A u \in Users \cup Players :
       Cardinality({m.room_id : m \in {x \in room_member :
                       /\ x.user_id = u
                       /\ room[x.room_id].wait_room_status # DISSOLUTION}}) <= 1

\* C17: in every committed state, whatever the interleaving (also two join_room
\* requests of one user for one room at the same time), a room holds at most
\* one member row per user and its joined_user_count counts a user once: it is
\* not above the number of users that are members of the room.
C17_OneRowPerUser ==
    \A r \in DOMAIN room :
       /\ \A u \in Users \cup Players :
             Cardinality({m \in Members(r) : m.user_id = u}) <= 1
       /\ room[r].joined_user_count <= Cardinality({m.user_id : m \in Members(r)})

\* C18: a start_room or end_room that succeeds sets the ttl of the caller's
\* member row (start_room: the live interval, end_room: the polling interval,
\* added to the clock of a moment of the call) and leaves the ttl of every other
\* member row of the room as it was.
C18_CallerTtlOnly ==
    [][\A t \in Txns :
          ((Finishes(t, "start_room") \/ Finishes(t, "end_room"))
              /\ txn'[t].ret = "None") =>
             LET u == txn'[t].user
                 r == txn'[t].room_id
                 time == IF txn'[t].op = "start_room" THEN TTL_LIVE_INTERVAL
                                                      ELSE TTL_POLLING_INTERVAL
             IN \A x \in {m \in room_member' : m.room_id = r} :
                   IF x.user_id = u
                   THEN \E n \in 0..now : x.ttl = n + time
                   ELSE \E m \in Members(r) : m.id = x.id /\ m.ttl = x.ttl]_vars

\* C19: no interleaving reaches a state where open transactions wait for each
\* other's room or member row locks in a cycle, and no operation ends as the
\* victim of a deadlock.
C19_NoLockCycle ==
    \A t \in Txns : ~InCycle(t) /\ txn[t].ret # "Deadlock"

\* C20: when no lease is granted or refreshed any more, time advances and
\* leave_expired_member keeps being invoked, every member row of a WAITING or
\* LIVE room is eventually removed and the room eventually is DISSOLVED with
\* joined_user_count = 0.
C20_LeaseExpiry ==
    \A r \in ConcRoomIds :
       (now > 0 /\ IF r \in DOMAIN room
                   THEN room[r].wait_room_status # DISSOLUTION
                   ELSE FALSE)
          ~> (IF r \in DOMAIN room
              THEN /\ Members(r) = {}
                   /\ room[r].wait_room_status = DISSOLUTION
                   /\ room[r].joined_user_count = 0
              ELSE FALSE)

====
